---------------------------- MODULE Spec2Model ----------------------------
(***************************************************************************)
(* A model of the ACOEM UK API export tool: the AcoemRequest class of      *)
(* modules/acoemapi.py (station metadata, the channel decoder, schema      *)
(* inference, the CSV and JSON formatters) and the day loop of main.py.    *)
(*                                                                         *)
(* Representation.                                                         *)
(*  - A Python str is a sequence of lexical tokens (TLA+ strings).  The    *)
(*    tokens are chosen so that every needle the code searches for         *)
(*    ("PreScaled", "[", "Flag") is one token and so that the character    *)
(*    in front of "PreScaled" in a composite key is the one-character      *)
(*    token " ".  Concatenation (f-strings) is \o.                         *)
(*  - A Python dict is a sequence of <<key, value>> pairs in insertion     *)
(*    order: assigning an existing key keeps its position.                 *)
(*  - A JSON value is [kind, v]: null, an integer, a float with one        *)
(*    decimal (v counts tenths) or a string that is no number.  A Python   *)
(*    float is the integer number of tenths.                               *)
(*  - A date is the integer number of days since 2021-05-31.               *)
(***************************************************************************)
EXTENDS Integers, Sequences, FiniteSets, TLC

VARIABLES
    station_meta,      \* AcoemRequest.station_meta: dict id -> dict
    measurement_data,  \* AcoemRequest.measurement_data: dict id -> list of containers
    pc,                \* position of the running program
    cfg,               \* config_settings: "File Format" and "Write to Influx"
    start_date,        \* main.py start_date
    number_of_days,    \* main.py number_of_days
    day,               \* main.py loop variable day
    todo,              \* stations still to be requested on this day
    stations_with_data,\* main.py stations_with_data
    files,             \* the local file sink: dict <<path, name>> -> text
    influx,            \* the database sink: list of write_container_list arguments
    requests,          \* every HTTP request issued so far, in order
    raw,               \* the answers received: the day's <<id, response>> so far
    ret                \* what the last operation returned

vars == <<station_meta, measurement_data, pc, cfg, start_date, number_of_days,
          day, todo, stations_with_data, files, influx, requests, raw, ret>>

---------------------------------------------------------------------------
(* Bounds of the model.                                                    *)

MaxDays == 2
MaxRecords == 2
MaxChannels == 2

---------------------------------------------------------------------------
(* Python str and list helpers.                                            *)

\* The element of a one-element set.  A loop of the code is a recursion whose
\* next accumulator is bound as The({ ... : next \in {step} }): the step of
\* the loop is computed once, as the assignment of the code computes it.
The(S) == CHOOSE x \in S : TRUE

\* str.find(needle) for a one-token needle: 0-based index, -1 when absent.
RECURSIVE FindFrom(_, _, _)
FindFrom(s, tok, i) ==
    IF i > Len(s) THEN -1
    ELSE IF s[i] = tok THEN i - 1
    ELSE FindFrom(s, tok, i + 1)

Find(s, tok) == FindFrom(s, tok, 1)

\* s[:n] with Python's meaning of a negative n.
SliceTo(s, n) ==
    LET m == IF n < 0 THEN Len(s) + n ELSE n
        k == IF m < 0 THEN 0 ELSE IF m > Len(s) THEN Len(s) ELSE m
    IN  SubSeq(s, 1, k)

\* s[n:] for n >= 0, and for n = -1 (find found nothing): the last token.
SliceFrom(s, n) ==
    LET m == IF n < 0 THEN Len(s) + n ELSE n
        k == IF m < 0 THEN 0 ELSE IF m > Len(s) THEN Len(s) ELSE m
    IN  SubSeq(s, k + 1, Len(s))

\* x in list
InList(x, l) == \E i \in 1..Len(l) : l[i] = x

\* A list left in its order.
Unreversed(l) == l

\* list.reverse()
Reverse(l) == [i \in 1..Len(l) |-> l[Len(l) + 1 - i]]

\* list.remove(x): drops the first occurrence.
RemoveFirst(l, x) ==
    IF ~InList(x, l) THEN l
    ELSE LET i == CHOOSE j \in 1..Len(l) : l[j] = x /\ \A k \in 1..(j - 1) : l[k] # x
         IN  SubSeq(l, 1, i - 1) \o SubSeq(l, i + 1, Len(l))

---------------------------------------------------------------------------
(* Python dict helpers.                                                    *)

DictKeys(d) == [i \in 1..Len(d) |-> d[i][1]]

DictHas(d, k) == \E i \in 1..Len(d) : d[i][1] = k

DictGet(d, k) == d[CHOOSE i \in 1..Len(d) : d[i][1] = k][2]

\* d[k] = v
DictSet(d, k, v) ==
    IF DictHas(d, k)
    THEN [i \in 1..Len(d) |-> IF d[i][1] = k THEN <<k, v>> ELSE d[i]]
    ELSE Append(d, <<k, v>>)

\* {**a, **b}
RECURSIVE DictMerge(_, _)
DictMerge(a, b) ==
    IF b = <<>> THEN a
    ELSE The({DictMerge(next, rest) :
                next \in {DictSet(a, b[1][1], b[1][2])}, rest \in {Tail(b)}})

---------------------------------------------------------------------------
(* Conversions.                                                            *)

JNull == [kind |-> "null", v |-> 0]
JInt(n) == [kind |-> "int", v |-> n]
JFloat(tenths) == [kind |-> "float", v |-> tenths]
JBad == [kind |-> "str", v |-> 0]

\* float(x) succeeds on a JSON number only: float(None) is a TypeError and
\* float of a non-numeric string a ValueError.
FloatOk(x) == x.kind \in {"int", "float"}

\* float(x), in tenths.
Float(x) == IF x.kind = "int" THEN 10 * x.v ELSE x.v

Digit(n) ==
    CASE n = 0 -> "0" [] n = 1 -> "1" [] n = 2 -> "2" [] n = 3 -> "3"
      [] n = 4 -> "4" [] n = 5 -> "5" [] n = 6 -> "6" [] n = 7 -> "7"
      [] n = 8 -> "8" [] n = 9 -> "9"

RECURSIVE Digits(_)
Digits(n) == IF n < 10 THEN <<Digit(n)>> ELSE Append(Digits(n \div 10), Digit(n % 10))

\* str(f) of a non-negative float with one decimal: "10.0", "9.5", "0.1".
FloatStr(tenths) == Digits(tenths \div 10) \o <<".", Digit(tenths % 10)>>

\* Dates are day numbers; day 1 is 2021-06-01.
DateTokens == <<"2021-06-01", "2021-06-02", "2021-06-03", "2021-06-04", "2021-06-05">>
TimeTokens == {"00:00:00", "00:15:00"}

\* strftime("%Y-%m-%d")
DateStr(d) == DateTokens[d]

\* The UTC offsets %z accepts, as minutes.
TzMinutes(tz) ==
    CASE tz = "+0000" -> 0 [] tz = "+00:00" -> 0 [] tz = "Z" -> 0 [] tz = "+0100" -> 60

TzTokens == {"+0000", "+00:00", "Z", "+0100"}

\* The offset as strftime("%z") prints it.
TzStr(minutes) == IF minutes = 0 THEN "+0000" ELSE "+0100"

\* Whether strptime(ts, "%Y-%m-%dT%H:%M:%S%z") matches.
StrptimeOk(ts) ==
    /\ Len(ts) = 4
    /\ InList(ts[1], DateTokens)
    /\ ts[2] = "T"
    /\ ts[3] \in TimeTokens
    /\ ts[4] \in TzTokens

\* The datetime strptime returns.
Strptime(ts) == [date |-> ts[1], time |-> ts[3], utcoffset |-> TzMinutes(ts[4])]

\* time.strftime('%Y-%m-%d %H:%M:%S')
StrftimeCsv(t) == <<t.date, " ", t.time>>

\* time.strftime("%Y-%m-%dT%H:%M:%S%z")
StrftimeJson(t) == <<t.date, "T", t.time, TzStr(t.utcoffset)>>

---------------------------------------------------------------------------
(* The channel decoder: AcoemRequest.dl_station_measurements.              *)

Str(tok) == <<tok>>

location_keys == <<Str("Latitude"), Str("Longitude"), Str("Altitude")>>
measurement_types == <<"PreScaled", "Scaled", "Slope", "Offset">>

\* The two byte literals of the no-data marker.
NoDataMarker == <<"NO DATA WAS FOUND FOR ", "YOUR GIVEN PARAMETERS">>

\* content in marker, for bytes: content is a contiguous part of marker.
BytesIn(content, marker) ==
    \E i \in 1..(Len(marker) + 1) :
        /\ i + Len(content) - 1 <= Len(marker)
        /\ SubSeq(marker, i, i + Len(content) - 1) = content

\* A test of the status alone.
DataReqSuccessStatusOnly(resp) == resp.status_code = 200

\* data_req_success
DataReqSuccess(resp) ==
    /\ resp.status_code = 200
    /\ ~BytesIn(resp.content, NoDataMarker)

\* f'{channel["SensorName"]} {measurement_type} [{channel["UnitName"]}]'
FieldKey(channel, measurement_type) ==
    channel.SensorName \o <<" ", measurement_type, " ", "[">> \o channel.UnitName \o <<"]">>

\* f"{channel['SensorName']} Flag"
FlagKey(channel) == channel.SensorName \o <<" ", "Flag">>

\* channel[measurement_type]
ChannelValue(channel, measurement_type) ==
    CASE measurement_type = "PreScaled" -> channel.PreScaled
      [] measurement_type = "Scaled" -> channel.Scaled
      [] measurement_type = "Slope" -> channel.Slope
      [] measurement_type = "Offset" -> channel.Offset

\* measurement[key] for a location key
LocationValue(measurement, key) ==
    CASE key = Str("Latitude") -> measurement.Latitude
      [] key = Str("Longitude") -> measurement.Longitude
      [] key = Str("Altitude") -> measurement.Altitude

\* A decoder that reads availability off the Scaled value.
MeasurementAvailableScaled(channel) == channel.Scaled.kind # "null"

\* measurement_available
MeasurementAvailable(channel) == channel.PreScaled.kind # "null"

\* flag_string: the flags after the first are appended behind ", ".
RECURSIVE JoinFlags(_, _)
JoinFlags(flag_string, rest) ==
    IF rest = <<>> THEN flag_string
    ELSE JoinFlags(flag_string \o <<", ">> \o rest[1], Tail(rest))

FlagString(flags) == JoinFlags(flags[1], Tail(flags))

\* A decoder that keeps the first flag only.
FlagValueFirst(channel) ==
    IF InList(Str("Valid"), channel.Flags) THEN Str("Valid") ELSE channel.Flags[1]

\* The value of the channel's flag tag.
FlagValue(channel) ==
    IF InList(Str("Valid"), channel.Flags) THEN Str("Valid")
    ELSE FlagString(channel.Flags)

\* The channel is decoded without an exception: float() takes each of the four
\* values, and channel["Flags"][0] exists unless "Valid" is in the list.
ChannelOk(channel) ==
    MeasurementAvailable(channel) =>
        /\ \A i \in 1..Len(measurement_types) :
                FloatOk(ChannelValue(channel, measurement_types[i]))
        /\ InList(Str("Valid"), channel.Flags) \/ channel.Flags # <<>>

\* The four fields of one available channel, added to the container's fields.
RECURSIVE AddChannelFields(_, _, _)
AddChannelFields(fields, channel, types) ==
    IF types = <<>> THEN fields
    ELSE The({AddChannelFields(next, channel, Tail(types)) :
                next \in {DictSet(fields, FieldKey(channel, types[1]),
                                  Float(ChannelValue(channel, types[1])))}})

\* The loop over measurement["Channels"], on the container.
RECURSIVE AddChannels(_, _)
AddChannels(container, channels) ==
    IF channels = <<>> THEN container
    ELSE LET channel == channels[1]
             next == IF MeasurementAvailable(channel)
                     THEN [container EXCEPT
                             !.fields = AddChannelFields(@, channel, measurement_types),
                             !.tags = DictSet(@, FlagKey(channel), FlagValue(channel))]
                     ELSE container
         IN  The({AddChannels(bound, rest) : bound \in {next}, rest \in {Tail(channels)}})

\* The loop over location_keys, on the container's fields.
RECURSIVE AddLocation(_, _, _)
AddLocation(fields, measurement, keys) ==
    IF keys = <<>> THEN fields
    ELSE LET value == LocationValue(measurement, keys[1])
         IN  The({AddLocation(next, measurement, Tail(keys)) :
                    next \in {IF value.kind # "null"
                              THEN DictSet(fields, keys[1], Float(value))
                              ELSE fields}})

\* One raw record is decoded without an exception.
MeasurementOk(measurement) ==
    /\ StrptimeOk(measurement.TBTimestamp)
    /\ \A i \in 1..Len(location_keys) :
          LET value == LocationValue(measurement, location_keys[i])
          IN  value.kind # "null" => FloatOk(value)
    /\ \A i \in 1..Len(measurement.Channels) : ChannelOk(measurement.Channels[i])

\* The measurement_container of one raw record, metadata tags included.
MeasurementContainer(meta, measurement) ==
    LET empty == [time |-> Strptime(measurement.TBTimestamp),
                  measurement |-> "ACOEM UK Systems",
                  fields |-> AddLocation(<<>>, measurement, location_keys),
                  tags |-> <<>>]
        decoded == AddChannels(empty, measurement.Channels)
    IN  [decoded EXCEPT !.tags = DictMerge(@, meta)]

\* A decoder that appends every container.
MaterializedAlways(container) == TRUE

\* Whether the container is appended to measurement_data[id].
Materialized(container) == Len(DictKeys(container.fields)) # 0

\* The loop over station_measurements.json(): the list built up to the first
\* record that raises, and whether one raised.
RECURSIVE DecodeAll(_, _, _)
DecodeAll(meta, records, acc) ==
    IF records = <<>> THEN [points |-> acc, raised |-> FALSE]
    ELSE IF ~MeasurementOk(records[1]) THEN [points |-> acc, raised |-> TRUE]
    ELSE The({DecodeAll(meta, rest,
                        IF Materialized(container) THEN Append(acc, container) ELSE acc) :
                container \in {MeasurementContainer(meta, records[1])},
                rest \in {Tail(records)}})

\* The request of one station's records: the window is part of the link.
DataReqLink(id, day_start, day_end) == [id |-> id, from |-> day_start, to |-> day_end]

\* A call that absorbs the exception of its decoding.
DlStationMeasurementsAbsorbed(meta_all, data, id, resp) ==
    IF ~DataReqSuccess(resp) THEN [data |-> data, raised |-> FALSE]
    ELSE IF ~resp.is_json THEN [data |-> DictSet(data, id, <<>>), raised |-> FALSE]
    ELSE The({[data |-> DictSet(data, id, got.points), raised |-> FALSE] :
                got \in {DecodeAll(DictGet(meta_all, id), resp.json, <<>>)}})

\* The part of dl_station_measurements behind the request, on the object's
\* state: the new measurement_data and whether the call raised.  resp is the
\* server's answer.
DlStationMeasurements(meta_all, data, id, resp) ==
    IF ~DataReqSuccess(resp) THEN [data |-> data, raised |-> FALSE]
    ELSE IF ~resp.is_json THEN [data |-> DictSet(data, id, <<>>), raised |-> TRUE]
    ELSE The({[data |-> DictSet(data, id, got.points), raised |-> got.raised] :
                got \in {DecodeAll(DictGet(meta_all, id), resp.json, <<>>)}})

\* dl_station_measurements(id, day_start, period_length): its request, too.
DlStationRequest(id, day_start, period_length) ==
    DataReqLink(id, day_start, day_start + period_length)

\* dl_all_station_measurements(day_start, periodLength): the loop over
\* station_IDs.  answers[i] is the server's answer for station_IDs[i]; the
\* first station whose decoding raises ends the call.
RECURSIVE DlAllStationMeasurements(_, _, _, _, _, _, _)
DlAllStationMeasurements(meta_all, data, station_IDs, day_start, periodLength, answers, sent) ==
    IF station_IDs = <<>> THEN [data |-> data, raised |-> FALSE, requests |-> sent]
    ELSE LET id == station_IDs[1]
             day_end == day_start + 1
             got == DlStationMeasurements(meta_all, data, id, answers[1])
             now == Append(sent, DataReqLink(id, day_start, day_end))
         IN  IF got.raised THEN [data |-> got.data, raised |-> TRUE, requests |-> now]
             ELSE DlAllStationMeasurements(meta_all, got.data, Tail(station_IDs),
                                           day_start, periodLength, Tail(answers), now)

---------------------------------------------------------------------------
(* Station metadata: AcoemRequest.dl_station_meta.                         *)

keys_to_remove == <<Str("Latitude"), Str("Longitude"), Str("Altitude")>>

\* A loop that removes nothing.
RemoveNoKeys(meta_keys, keys) == meta_keys

\* meta_keys after the loop over keys_to_remove.
RECURSIVE RemoveKeys(_, _)
RemoveKeys(meta_keys, keys) ==
    IF keys = <<>> THEN meta_keys
    ELSE The({RemoveKeys(next, Tail(keys)) :
                next \in {IF InList(keys[1], meta_keys)
                          THEN RemoveFirst(meta_keys, keys[1])
                          ELSE meta_keys}})

\* station_meta[unique_ID] for one station of meta_raw.
RECURSIVE CopyKeys(_, _, _)
CopyKeys(station, meta_keys, acc) ==
    IF meta_keys = <<>> THEN acc
    ELSE The({CopyKeys(station, rest, next) :
                next \in {DictSet(acc, meta_keys[1], DictGet(station, meta_keys[1]))},
                rest \in {Tail(meta_keys)}})

\* dl_station_meta: station_meta after the loop over meta_raw.
RECURSIVE DlStationMeta(_, _)
DlStationMeta(meta, meta_raw) ==
    IF meta_raw = <<>> THEN meta
    ELSE LET station == meta_raw[1]
             unique_ID == DictGet(station, Str("UniqueId"))
             meta_keys == RemoveKeys(DictKeys(station), keys_to_remove)
         IN  The({DlStationMeta(next, Tail(meta_raw)) :
                    next \in {DictSet(meta, unique_ID, CopyKeys(station, meta_keys, <<>>))}})

---------------------------------------------------------------------------
(* Schema inference: AcoemRequest.get_key_classifications.                 *)

\* A schema inference that appends every key of every Point.
AppendAll(list, keys) == list \o keys

\* The keys of one mapping appended to a key list, those already in it skipped.
RECURSIVE AppendNew(_, _)
AppendNew(list, keys) ==
    IF keys = <<>> THEN list
    ELSE The({AppendNew(next, rest) :
                next \in {IF ~InList(keys[1], list) THEN Append(list, keys[1]) ELSE list},
                rest \in {Tail(keys)}})

RECURSIVE ClassifyFrom(_, _)
ClassifyFrom(keys, measurements) ==
    IF measurements = <<>> THEN keys
    ELSE The({ClassifyFrom(next, rest) :
                next \in {[fields |-> AppendNew(keys.fields,
                                                DictKeys(measurements[1].fields)),
                           tags |-> AppendNew(keys.tags,
                                              DictKeys(measurements[1].tags))]},
                rest \in {Tail(measurements)}})

\* get_key_classifications(id), on measurement_data[id]
GetKeyClassifications(measurements) ==
    ClassifyFrom([fields |-> <<>>, tags |-> <<>>], measurements)

---------------------------------------------------------------------------
(* The CSV formatter: AcoemRequest.format_as_csv.                          *)

\* A header that puts the Flag column first among a variable's five.
measurement_order_flag_first == <<"Flag", "PreScaled", "Scaled", "Slope", "Offset">>

measurement_order == <<"PreScaled", "Scaled", "Flag", "Slope", "Offset">>

\* variables_measured after the loop over keys["fields"]
RECURSIVE VariablesMeasured(_, _)
VariablesMeasured(acc, fields) ==
    IF fields = <<>> THEN acc
    ELSE LET field == fields[1]
             prescaled_index == Find(field, "PreScaled")
             unit_index == Find(field, "[")
         IN  The({VariablesMeasured(next, rest) :
                    next \in {IF prescaled_index # -1
                              THEN DictSet(acc, SliceTo(field, prescaled_index - 1),
                                           SliceFrom(field, unit_index))
                              ELSE acc},
                    rest \in {Tail(fields)}})

\* The keys of one classification that go to extra_tags.
RECURSIVE ExtraOf(_, _)
ExtraOf(acc, keys) ==
    IF keys = <<>> THEN acc
    ELSE The({ExtraOf(next, rest) :
                next \in {IF Find(keys[1], "[") = -1 /\ Find(keys[1], "Flag") = -1
                          THEN Append(acc, keys[1]) ELSE acc},
                rest \in {Tail(keys)}})

\* extra_tags: the fields are scanned first, then the tags.
ExtraTags(keys) == ExtraOf(ExtraOf(<<>>, keys.fields), keys.tags)

\* f"{variable} {measurement_type}{unit}"
ColumnName(variable, measurement_type, unit_text) ==
    LET unit == IF measurement_type # "Flag" THEN <<" ">> \o unit_text ELSE <<>>
    IN  variable \o <<" ", measurement_type>> \o unit

\* The columns of one variable, in measurement_order.
VariableColumns(variable, unit_text) ==
    [i \in 1..Len(measurement_order) |->
        ColumnName(variable, measurement_order[i], unit_text)]

RECURSIVE HeaderColumns(_, _)
HeaderColumns(acc, variables_measured) ==
    IF variables_measured = <<>> THEN acc
    ELSE The({HeaderColumns(next, rest) :
                next \in {acc \o VariableColumns(variables_measured[1][1],
                                                  variables_measured[1][2])},
                rest \in {Tail(variables_measured)}})

\* csv_header
CsvHeader(keys) ==
    HeaderColumns(<<Str("Timestamp")>>, VariablesMeasured(<<>>, keys.fields))
        \o ExtraTags(keys)

\* A row's text: the first cell, then ", " and a cell for each further one, "\n".
RECURSIVE JoinCells(_, _)
JoinCells(text, cells) ==
    IF cells = <<>> THEN text \o <<"\n">>
    ELSE The({JoinCells(next, rest) :
                next \in {text \o <<", ">> \o cells[1]}, rest \in {Tail(cells)}})

\* The cell of one column in one measurement's row.
CsvCell(measurement, key) ==
    LET combined_values == DictMerge(measurement.fields, measurement.tags)
        measurement_keys == DictKeys(combined_values)
        field_keys == DictKeys(measurement.fields)
        \* str(combined_values[key]): a tag's value is text, a field's a float.
        shown == IF DictHas(measurement.tags, key) THEN DictGet(combined_values, key)
                 ELSE FloatStr(DictGet(combined_values, key))
    IN  IF InList(key, measurement_keys) /\ InList(key, field_keys) THEN shown
        ELSE IF InList(key, measurement_keys) THEN <<"\"">> \o shown \o <<"\"">>
        ELSE <<>>

\* A row loop that writes nothing for a column the measurement has no value of.
CsvRowCellsPresent(measurement, csv_header) ==
    SelectSeq([i \in 1..(Len(csv_header) - 1) |-> CsvCell(measurement, csv_header[i + 1])],
              LAMBDA cell : cell # <<>>)

\* The cells of one measurement's row after the timestamp.
CsvRowCells(measurement, csv_header) ==
    [i \in 1..(Len(csv_header) - 1) |-> CsvCell(measurement, csv_header[i + 1])]

RECURSIVE CsvRows(_, _, _)
CsvRows(csv_raw, measurements, csv_header) ==
    IF measurements = <<>> THEN csv_raw
    ELSE The({CsvRows(next, rest, csv_header) :
                next \in {JoinCells(csv_raw \o StrftimeCsv(measurements[1].time),
                                    CsvRowCells(measurements[1], csv_header))},
                rest \in {Tail(measurements)}})

\* format_as_csv(id, keys), on measurement_data[id]
FormatAsCsv(data, keys) ==
    The({CsvRows(JoinCells(csv_header[1], Tail(csv_header)), measurements, csv_header) :
            measurements \in {Reverse(data)}, csv_header \in {CsvHeader(keys)}})

---------------------------------------------------------------------------
(* The JSON formatter: AcoemRequest.format_as_json.                        *)

RECURSIVE JsonFrom(_, _)
JsonFrom(json_measurements, measurements) ==
    IF measurements = <<>> THEN json_measurements
    ELSE LET timestamp == StrftimeJson(measurements[1].time)
             container == [Data |-> measurements[1].fields,
                           Status |-> measurements[1].tags]
         IN  The({JsonFrom(next, rest) :
                    next \in {DictSet(json_measurements, timestamp, container)},
                    rest \in {Tail(measurements)}})

\* The mapping built from the list in its stored order.
FormatAsJsonStored(data) == The({JsonFrom(<<>>, measurements) : measurements \in {data}})

\* format_as_json(id), on measurement_data[id]
FormatAsJson(data) == The({JsonFrom(<<>>, measurements) : measurements \in {Reverse(data)}})

\* A clear that leaves the datasets as they are.
ClearMeasurementsKept == measurement_data

\* clear_measurements
ClearMeasurements == <<>>

---------------------------------------------------------------------------
(* Inputs: what the remote API can answer.                                 *)

S1 == Str("S1")
S2 == Str("S2")

\* The /stations payloads: a list of station records.
StationRaw1 ==
    << <<Str("UniqueId"), S1>>, <<Str("Latitude"), Str("51.2")>>,
       <<Str("SerialNumber"), Str("ABC123")>> >>
StationRaw2 ==
    << <<Str("StationName"), Str("Kerb")>>, <<Str("UniqueId"), S2>>,
       <<Str("Longitude"), Str("-0.6")>>, <<Str("Altitude"), Str("40")>> >>

MetaPayloads == { <<StationRaw1, StationRaw2>>, <<StationRaw2, StationRaw1>> }

\* The station metadata of the specification's worked example.
ExampleMeta == << <<S1, << <<Str("SerialNumber"), Str("ABC123")>> >> >> >>

Valid == Str("Valid")
Fault == Str("Fault")
Cal == Str("Cal")

SensorUnits ==
    { <<Str("PM25"), Str("ug/m3")>>, <<Str("PM25"), Str("ppb")>>,
      <<Str("NO2"), Str("ppb")>> }

GoodValues ==
    [PreScaled |-> JFloat(100), Scaled |-> JFloat(95), Slope |-> JFloat(10),
     Offset |-> JFloat(1)]
IntValues ==
    [PreScaled |-> JInt(12), Scaled |-> JInt(9), Slope |-> JInt(1), Offset |-> JInt(0)]
NullValues ==
    [PreScaled |-> JNull, Scaled |-> JNull, Slope |-> JNull, Offset |-> JNull]
NullPreScaled == [GoodValues EXCEPT !.PreScaled = JNull]
NullScaled == [GoodValues EXCEPT !.Scaled = JNull]
BadOffset == [GoodValues EXCEPT !.Offset = JBad]

FlagLists ==
    { <<Valid>>, <<Fault>>, <<Fault, Cal>>, <<Cal, Fault>>, <<Cal, Valid>>,
      <<Cal, Cal>>, <<>> }

Channel(su, values, flags) ==
    [SensorName |-> su[1], UnitName |-> su[2], PreScaled |-> values.PreScaled,
     Scaled |-> values.Scaled, Slope |-> values.Slope, Offset |-> values.Offset,
     Flags |-> flags]

\* Every sensor with a valid reading, one sensor under every flag list, one
\* sensor with a null among its values.
Channels ==
    {Channel(su, GoodValues, <<Valid>>) : su \in SensorUnits}
    \cup {Channel(<<Str("PM25"), Str("ug/m3")>>, GoodValues, f) : f \in FlagLists}
    \cup {Channel(<<Str("NO2"), Str("ppb")>>, v, <<Fault, Cal>>) :
            v \in {NullValues, NullPreScaled, NullScaled}}

\* Lists of at most n elements of S.
RECURSIVE ListsUpTo(_, _)
ListsUpTo(S, n) ==
    IF n = 0 THEN {<<>>}
    ELSE LET shorter == ListsUpTo(S, n - 1)
         IN  shorter \cup {Append(l, x) : l \in shorter, x \in S}

Timestamp(d, time, tz) == <<DateStr(d), "T", time, tz>>

NoLocation == [Latitude |-> JNull, Longitude |-> JNull, Altitude |-> JNull]
SomeLocation == [Latitude |-> JFloat(512), Longitude |-> JInt(0), Altitude |-> JNull]

Record(ts, loc, channels) ==
    [TBTimestamp |-> ts, Latitude |-> loc.Latitude, Longitude |-> loc.Longitude,
     Altitude |-> loc.Altitude, Channels |-> channels]

\* A timestamp the format does not match: no "T", no offset.
BadTimestamp(d) == <<DateStr(d), " ", "00:00:00">>

\* Every record of at most MaxChannels channels, under two headers.
ProductRecords ==
    LET heads == { <<Timestamp(1, "00:00:00", "+0000"), NoLocation>>,
                   <<Timestamp(1, "00:15:00", "+0100"), SomeLocation>> }
    IN  {Record(h[1], h[2], c) : h \in heads, c \in ListsUpTo(Channels, MaxChannels)}

\* The record of the specification's worked example, on day d.
ExampleRecord(d) ==
    Record(Timestamp(d, "00:00:00", "+0000"), NoLocation,
           <<Channel(<<Str("PM25"), Str("ug/m3")>>, GoodValues, <<Valid>>)>>)

\* Records of a day d for the datasets of several Points.
SampleRecords(d) ==
    { ExampleRecord(d),
      Record(Timestamp(d, "00:15:00", "+0000"), SomeLocation,
             <<Channel(<<Str("NO2"), Str("ppb")>>, IntValues, <<Fault, Cal>>),
               Channel(<<Str("PM25"), Str("ug/m3")>>, GoodValues, <<Valid>>)>>),
      Record(Timestamp(d, "00:15:00", "Z"), NoLocation,
             <<Channel(<<Str("PM25"), Str("ppb")>>, IntValues, <<Cal, Valid>>),
               Channel(<<Str("PM25"), Str("ug/m3")>>, GoodValues, <<Fault>>)>>),
      Record(Timestamp(d, "00:00:00", "+0100"), SomeLocation, <<>>),
      Record(Timestamp(d, "00:00:00", "+0000"), NoLocation,
             <<Channel(<<Str("NO2"), Str("ppb")>>, NullValues, <<Fault>>)>>),
      Record(Timestamp(d, "00:15:00", "+0000"), NoLocation,
             <<Channel(<<Str("NO2"), Str("ppb")>>, BadOffset, <<Valid>>)>>),
      Record(BadTimestamp(d), NoLocation, <<>>) }

\* A 200 answer whose body is a JSON list of records.
JsonResponse(records) ==
    [status_code |-> 200, content |-> <<"[...]">>, is_json |-> TRUE, json |-> records]

---------------------------------------------------------------------------
(* The pure functions on bounded inputs: the decoder, schema inference and *)
(* the two formatters, applied to one station's answer.                    *)

\* Station metadata with an attribute named like a field of a PM25 channel.
ClashMeta ==
    << <<S1, << <<FieldKey([SensorName |-> Str("PM25"), UnitName |-> Str("ug/m3")],
                           "PreScaled"),
                  Str("ABC123")>> >> >> >>

PureMetas == {ExampleMeta, ClashMeta} \cup {DlStationMeta(<<>>, m) : m \in MetaPayloads}

\* The pairs of station_meta and answer: every single record under the
\* example's metadata, every list of sample records under every metadata.
PureInputs ==
    {<<ExampleMeta, JsonResponse(<<r>>)>> : r \in ProductRecords}
    \cup {<<m, JsonResponse(l)>> :
            m \in PureMetas, l \in ListsUpTo(SampleRecords(1), MaxRecords)}

\* What the variables of the day loop hold while it is not running.
Idle ==
    /\ cfg = [format |-> "none", influx |-> FALSE]
    /\ start_date = 1
    /\ number_of_days = 0
    /\ day = 0
    /\ todo = <<>>
    /\ stations_with_data = <<>>
    /\ files = <<>>
    /\ influx = <<>>
    /\ requests = <<>>

IdleUnchanged ==
    UNCHANGED <<cfg, start_date, number_of_days, day, todo, stations_with_data,
                files, influx, requests>>

InitPure ==
    /\ Idle
    /\ \E input \in PureInputs : station_meta = input[1] /\ raw = input[2]
    /\ measurement_data = <<>>
    /\ ret = [op |-> "none"]
    /\ pc = "input"

PureDecode ==
    /\ pc = "input"
    /\ LET got == DlStationMeasurements(station_meta, measurement_data, S1, raw)
       IN  /\ measurement_data' = got.data
           /\ ret' = [op |-> "dl", raised |-> got.raised]
           /\ pc' = IF got.raised THEN "raised" ELSE "decoded"
    /\ UNCHANGED <<station_meta, raw>>
    /\ IdleUnchanged

PureClassify ==
    /\ pc = "decoded"
    /\ DictHas(measurement_data, S1)
    /\ ret' = [op |-> "keys",
               value |-> GetKeyClassifications(DictGet(measurement_data, S1))]
    /\ pc' = "classified"
    /\ UNCHANGED <<station_meta, measurement_data, raw>>
    /\ IdleUnchanged

PureCsv ==
    /\ pc = "classified"
    /\ ret' = [op |-> "csv", keys |-> ret.value,
               value |-> FormatAsCsv(DictGet(measurement_data, S1), ret.value)]
    /\ pc' = "formatted"
    /\ UNCHANGED <<station_meta, measurement_data, raw>>
    /\ IdleUnchanged

PureJson ==
    /\ pc = "decoded"
    /\ DictHas(measurement_data, S1)
    /\ ret' = [op |-> "json", value |-> FormatAsJson(DictGet(measurement_data, S1))]
    /\ pc' = "formatted"
    /\ UNCHANGED <<station_meta, measurement_data, raw>>
    /\ IdleUnchanged

NextPure == PureDecode \/ PureClassify \/ PureCsv \/ PureJson

SpecPure == InitPure /\ [][NextPure]_vars

---------------------------------------------------------------------------
(* The AcoemRequest object under any sequence of calls.                    *)

\* Answers that are no JSON list.
NotFound ==
    [status_code |-> 404, content |-> <<"Not Found">>, is_json |-> FALSE, json |-> <<>>]
NoData ==
    [status_code |-> 200, content |-> NoDataMarker, is_json |-> FALSE, json |-> <<>>]
MarkerPart ==
    [status_code |-> 200, content |-> <<"NO DATA WAS FOUND FOR ">>, is_json |-> FALSE,
     json |-> <<>>]
EmptyBody ==
    [status_code |-> 200, content |-> <<>>, is_json |-> FALSE, json |-> <<>>]
NotJson ==
    [status_code |-> 200, content |-> <<"<html>">>, is_json |-> FALSE, json |-> <<>>]

\* A record whose only channel has no measurement: it has no fields.
NullRecord(d) ==
    Record(Timestamp(d, "00:15:00", "+0000"), NoLocation,
           <<Channel(<<Str("NO2"), Str("ppb")>>, NullValues, <<Fault>>)>>)

BadRecord(d) == Record(BadTimestamp(d), NoLocation, <<>>)

\* A record with a value float() does not take.
BadNumberRecord(d) ==
    Record(Timestamp(d, "00:15:00", "+0000"), NoLocation,
           <<Channel(<<Str("NO2"), Str("ppb")>>, BadOffset, <<Valid>>)>>)

\* What the server may answer to a request.
ApiResponses ==
    { NotFound, NoData, MarkerPart, EmptyBody,
      JsonResponse(<<>>),
      JsonResponse(<<ExampleRecord(1), NullRecord(1)>>),
      JsonResponse(<<ExampleRecord(1), BadRecord(1)>>) }

\* The day_start and the period lengths of the calls.
ApiDays == {1}
ApiPeriods == {1, 2}

StationIds == DictKeys(station_meta)

InitApi ==
    /\ Idle
    /\ \E m \in MetaPayloads : station_meta = DlStationMeta(<<>>, m)
    /\ measurement_data = <<>>
    /\ raw = <<>>
    /\ ret = [op |-> "none"]
    /\ pc = "api"

\* dl_station_measurements(id, day_start, period_length)
ApiDlStation ==
    /\ pc = "api"
    /\ \E i \in 1..Len(StationIds), day_start \in ApiDays, period_length \in ApiPeriods :
        \E resp \in ApiResponses :
            \E got \in {DlStationMeasurements(station_meta, measurement_data,
                                               StationIds[i], resp)} :
                /\ measurement_data' = got.data
                /\ raw' = << <<StationIds[i], resp>> >>
                /\ ret' = [op |-> "dl", raised |-> got.raised,
                           requests |-> <<DlStationRequest(StationIds[i], day_start,
                                                           period_length)>>,
                           period |-> period_length]
    /\ UNCHANGED <<station_meta, pc>>
    /\ IdleUnchanged

\* dl_all_station_measurements(day_start, periodLength)
ApiDlAll ==
    /\ pc = "api"
    /\ \E day_start \in ApiDays, periodLength \in ApiPeriods :
        \E answers \in [1..Len(StationIds) -> ApiResponses] :
            \E got \in {DlAllStationMeasurements(station_meta, measurement_data,
                            StationIds, day_start, periodLength, answers, <<>>)} :
                /\ measurement_data' = got.data
                /\ raw' = [i \in 1..Len(got.requests) |-> <<StationIds[i], answers[i]>>]
                /\ ret' = [op |-> "dl_all", raised |-> got.raised,
                           requests |-> got.requests, period |-> periodLength]
    /\ UNCHANGED <<station_meta, pc>>
    /\ IdleUnchanged

\* clear_measurements()
ApiClear ==
    /\ pc = "api"
    /\ measurement_data' = ClearMeasurements
    /\ raw' = <<>>
    /\ ret' = [op |-> "clear"]
    /\ UNCHANGED <<station_meta, pc>>
    /\ IdleUnchanged

NextApi == ApiDlStation \/ ApiDlAll \/ ApiClear

SpecApi == InitApi /\ [][NextApi]_vars

---------------------------------------------------------------------------
(* The program: main.py.                                                   *)

\* TimeCalculator(start_date, end_date).day_difference(): the whole days from
\* the start to the end.
DayDifference(start, end) == end - start

\* A range that takes the end in.
InRangeInclusive(d, n) == 0 <= d /\ d <= n

\* range(number_of_days)
InRange(d, n) == 0 <= d /\ d < n

\* day_start = start_date + dt.timedelta(days=day)
DayStart(start, d) == start + d

\* json.dumps(raw_json, sort_keys=True, indent=4): with the keys sorted the text
\* is a function of the mapping alone, not of the order of insertion.
JsonDumps(raw_json) ==
    {<<raw_json[i][1],
       [Data |-> {raw_json[i][2].Data[j] : j \in 1..Len(raw_json[i][2].Data)},
        Status |-> {raw_json[i][2].Status[j] : j \in 1..Len(raw_json[i][2].Status)}]>> :
        i \in 1..Len(raw_json)}

\* save_to_file(write_data, path_to_file, filename): the file is overwritten.
SaveToFile(sink, write_data, path_to_file, filename) ==
    DictSet(sink, <<path_to_file, filename>>, write_data)

\* f"{config_settings['File Path']}/csv/{station}" and its json twin.
FilePath(kind, station) == <<"out", "/", kind, "/">> \o station

\* f"{day_start.strftime('%Y-%m-%d')}.csv" and its json twin.
FileName(day_start, kind) == <<DateStr(day_start), ".", kind>>

\* The loop that saves the csv files of stations_with_data.
RECURSIVE SaveAllCsv(_, _, _, _)
SaveAllCsv(sink, data, stations, day_start) ==
    IF stations = <<>> THEN sink
    ELSE LET station == stations[1]
         IN  The({SaveAllCsv(SaveToFile(sink, raw_csv, FilePath("csv", station),
                                        FileName(day_start, "csv")),
                             data, Tail(stations), day_start) :
                    raw_csv \in {The({FormatAsCsv(DictGet(data, station), tags) :
                                        tags \in {GetKeyClassifications(
                                                    DictGet(data, station))}})}})

\* The loop that saves the json files of stations_with_data.
RECURSIVE SaveAllJson(_, _, _, _)
SaveAllJson(sink, data, stations, day_start) ==
    IF stations = <<>> THEN sink
    ELSE LET station == stations[1]
         IN  The({SaveAllJson(SaveToFile(sink, JsonDumps(raw_json),
                                         FilePath("json", station),
                                         FileName(day_start, "json")),
                              data, Tail(stations), day_start) :
                    raw_json \in {FormatAsJson(DictGet(data, station))}})

\* A loop that hands nothing to the sink.
WriteNone(sink, station_measurements, stations, on) == sink

\* influx_writer.write_container_list(station_measurements[station]): the sink
\* keeps what it is handed; on notes the day of the loop.
RECURSIVE WriteAll(_, _, _, _)
WriteAll(sink, station_measurements, stations, on) ==
    IF stations = <<>> THEN sink
    ELSE WriteAll(Append(sink, [station |-> stations[1], on |-> on,
                                points |-> DictGet(station_measurements, stations[1])]),
                  station_measurements, Tail(stations), on)

\* What config.json may say.
Configs == [format : {"csv", "json", "both", "none"}, influx : BOOLEAN]

\* The dates of the command line.
Dates == {<<s, e>> : s \in {1, 2}, e \in 1..(MaxDays + 1)}

\* What the server may answer to a request for the day d.  The records come
\* newest first.
MainResponses(d) ==
    { NotFound, NoData,
      JsonResponse(<<>>),
      JsonResponse(<<NullRecord(d)>>),
      JsonResponse(<<NullRecord(d), ExampleRecord(d)>>),
      JsonResponse(<<ExampleRecord(d), BadRecord(d)>>),
      JsonResponse(<<BadNumberRecord(d)>>) }

\* The state when the command line and the two json files have been read.
Init ==
    /\ cfg \in Configs
    /\ \E d \in Dates :
        /\ start_date = d[1]
        /\ number_of_days = DayDifference(d[1], d[2])
    /\ station_meta = <<>>
    /\ measurement_data = <<>>
    /\ day = 0
    /\ todo = <<>>
    /\ stations_with_data = <<>>
    /\ files = <<>>
    /\ influx = <<>>
    /\ requests = <<>>
    /\ raw = <<>>
    /\ ret = [op |-> "none"]
    /\ pc = "meta"

\* The head of the loop over range(number_of_days), for the value d of day.
EnterDay(d, available_stations) ==
    IF InRange(d, number_of_days)
    THEN /\ day' = d
         /\ todo' = available_stations
         /\ pc' = "download"
    ELSE /\ day' = day
         /\ todo' = <<>>
         /\ pc' = "done"

\* acoem_API.dl_station_meta() and available_stations
MainDlMeta ==
    /\ pc = "meta"
    /\ \E meta_raw \in MetaPayloads :
        \E got \in {DlStationMeta(station_meta, meta_raw)} :
            /\ station_meta' = got
            /\ EnterDay(0, DictKeys(got))
    /\ requests' = Append(requests, [stations |-> TRUE])
    /\ raw' = <<>>
    /\ ret' = [op |-> "meta"]
    /\ UNCHANGED <<measurement_data, cfg, start_date, number_of_days,
                   stations_with_data, files, influx>>

\* acoem_API.dl_station_measurements(station, day_start) for the next station
MainDownload ==
    /\ pc = "download"
    /\ todo # <<>>
    /\ \E resp \in MainResponses(DayStart(start_date, day)) :
        \E got \in {DlStationMeasurements(station_meta, measurement_data, todo[1], resp)} :
            /\ measurement_data' = got.data
            /\ raw' = Append(raw, <<todo[1], resp>>)
            /\ ret' = [op |-> "dl", raised |-> got.raised]
            /\ pc' = IF got.raised THEN "raised" ELSE "download"
    /\ requests' = Append(requests,
                          DlStationRequest(todo[1], DayStart(start_date, day), 1))
    /\ todo' = Tail(todo)
    /\ UNCHANGED <<station_meta, cfg, start_date, number_of_days, day,
                   stations_with_data, files, influx>>

\* stations_with_data = list(acoem_API.get_measurement_data().keys())
MainStationsWithData ==
    /\ pc = "download"
    /\ todo = <<>>
    /\ stations_with_data' = DictKeys(measurement_data)
    /\ ret' = [op |-> "stations_with_data"]
    /\ pc' = "csv"
    /\ UNCHANGED <<station_meta, measurement_data, cfg, start_date, number_of_days,
                   day, todo, files, influx, requests, raw>>

\* if config_settings["File Format"] in ["csv", "both"]: ...
MainSaveCsv ==
    /\ pc = "csv"
    /\ \E saved \in {IF cfg.format \in {"csv", "both"}
                      THEN SaveAllCsv(files, measurement_data, stations_with_data,
                                      DayStart(start_date, day))
                      ELSE files} :
        files' = saved
    /\ ret' = [op |-> "csv"]
    /\ pc' = "json"
    /\ UNCHANGED <<station_meta, measurement_data, cfg, start_date, number_of_days,
                   day, todo, stations_with_data, influx, requests, raw>>

\* if config_settings["File Format"] in ["json", "both"]: ...
MainSaveJson ==
    /\ pc = "json"
    /\ \E saved \in {IF cfg.format \in {"json", "both"}
                      THEN SaveAllJson(files, measurement_data, stations_with_data,
                                       DayStart(start_date, day))
                      ELSE files} :
        files' = saved
    /\ ret' = [op |-> "json"]
    /\ pc' = "influx"
    /\ UNCHANGED <<station_meta, measurement_data, cfg, start_date, number_of_days,
                   day, todo, stations_with_data, influx, requests, raw>>

\* if config_settings["Write to Influx"]: ...
MainWriteInflux ==
    /\ pc = "influx"
    /\ \E written \in {IF cfg.influx
                        THEN WriteAll(influx, measurement_data, stations_with_data,
                                      DayStart(start_date, day))
                        ELSE influx} :
        influx' = written
    /\ ret' = [op |-> "influx"]
    /\ pc' = "clear"
    /\ UNCHANGED <<station_meta, measurement_data, cfg, start_date, number_of_days,
                   day, todo, stations_with_data, files, requests, raw>>

\* acoem_API.clear_measurements(), and the loop goes on to the next day
MainClear ==
    /\ pc = "clear"
    /\ measurement_data' = ClearMeasurements
    /\ raw' = <<>>
    /\ ret' = [op |-> "clear"]
    /\ EnterDay(day + 1, DictKeys(station_meta))
    /\ UNCHANGED <<station_meta, cfg, start_date, number_of_days,
                   stations_with_data, files, influx, requests>>

Next ==
    \/ MainDlMeta
    \/ MainDownload
    \/ MainStationsWithData
    \/ MainSaveCsv
    \/ MainSaveJson
    \/ MainWriteInflux
    \/ MainClear

Spec == Init /\ [][Next]_vars

\* The run that writes every output: csv and json files and the database.
InitFair == Init /\ cfg = [format |-> "both", influx |-> TRUE]

\* The interpreter runs the next statement as long as there is one.
SpecFair == InitFair /\ [][Next]_vars /\ WF_vars(Next)

---------------------------------------------------------------------------
(* Vocabulary of the properties, stated on the raw answer.                 *)

KeySet(d) == {d[i][1] : i \in 1..Len(d)}

\* The number of entries of a dict under one key.
Entries(d, k) == Cardinality({i \in 1..Len(d) : d[i][1] = k})

\* A JSON number as a float, in tenths.
Tenths(x) == IF x.kind = "int" THEN x.v * 10 ELSE x.v

NonNull(x) == x # JNull

\* "<SensorName> <Type> [<UnitName>]"
CompositeKey(ch, type) ==
    ch.SensorName \o <<" ", type, " ", "[">> \o ch.UnitName \o <<"]">>

FourKeys(ch) == {CompositeKey(ch, t) : t \in {"PreScaled", "Scaled", "Slope", "Offset"}}

\* "<SensorName> Flag"
FlagTag(ch) == ch.SensorName \o <<" ", "Flag">>

\* The channels of a record with a non-null PreScaled, by position.
AvailableAt(r) == {i \in 1..Len(r.Channels) : NonNull(r.Channels[i].PreScaled)}

LocationKeysOf(r) ==
    {Str(n) : n \in {n \in {"Latitude", "Longitude", "Altitude"} :
        NonNull(CASE n = "Latitude" -> r.Latitude [] n = "Longitude" -> r.Longitude
                  [] n = "Altitude" -> r.Altitude)}}

\* The field keys a record is to have.
ExpectedFieldKeys(r) ==
    LocationKeysOf(r) \cup UNION {FourKeys(r.Channels[i]) : i \in AvailableAt(r)}

HasFields(r) == ExpectedFieldKeys(r) # {}

\* The records of the answer that are to become Points, in order.
Kept(records) == SelectSeq(records, HasFields)

\* The answer of the last request was decoded, and nothing raised.
Decoded == pc \in {"decoded", "classified", "formatted"}

\* The Points of station S1.
Points == DictGet(measurement_data, S1)

\* C2: for every raw record that is decoded and every channel in it, the Point
\* holds the channel's four composite fields (cast to float) and its Flag tag if
\* and only if the channel's PreScaled is non-null: the Point's field keys are
\* exactly the non-null location keys and the four keys of the available
\* channels, and its tag keys besides the metadata are exactly the Flag keys of
\* the available channels.
C2_ChannelContribution ==
    Decoded =>
        LET kept == Kept(raw.json)
            meta == DictGet(station_meta, S1)
        IN  /\ Len(Points) = Len(kept)
            /\ \A n \in 1..Len(kept) :
                LET r == kept[n]
                    p == Points[n]
                IN  /\ KeySet(p.fields) = ExpectedFieldKeys(r)
                    /\ \A k \in KeySet(p.fields) : Entries(p.fields, k) = 1
                    /\ KeySet(p.tags) \ KeySet(meta)
                         = {FlagTag(r.Channels[i]) : i \in AvailableAt(r)}
                    /\ \A i \in AvailableAt(r) :
                        \A t \in {"PreScaled", "Scaled", "Slope", "Offset"} :
                            \E j \in AvailableAt(r) :
                                /\ CompositeKey(r.Channels[j], t)
                                     = CompositeKey(r.Channels[i], t)
                                /\ DictGet(p.fields, CompositeKey(r.Channels[i], t))
                                     = Tenths(ChannelValue(r.Channels[j], t))

\* A Point decoded from a record with one channel whose PreScaled alone is
\* null next to an available channel.
C2_Witness ==
    /\ Decoded
    /\ Len(raw.json) = 1
    /\ Len(Points) = 1
    /\ \E i, j \in 1..Len(raw.json[1].Channels) :
        /\ raw.json[1].Channels[i].PreScaled = JNull
        /\ raw.json[1].Channels[i].Scaled # JNull
        /\ raw.json[1].Channels[j].PreScaled # JNull
        /\ raw.json[1].Channels[i].SensorName # raw.json[1].Channels[j].SensorName

\* The flags of a list, each after the first behind the separator.
RECURSIVE Joined(_, _)
Joined(flags, sep) ==
    IF flags = <<>> THEN <<>>
    ELSE IF Len(flags) = 1 THEN flags[1]
    ELSE flags[1] \o sep \o Joined(Tail(flags), sep)

\* The flag tag a channel is to get, under a separator.
ExpectedFlag(ch, sep) ==
    IF \E i \in 1..Len(ch.Flags) : ch.Flags[i] = <<"Valid">> THEN <<"Valid">>
    ELSE Joined(ch.Flags, sep)

\* The last available channel of the record with the SensorName of channel i.
LastNamed(r, i) ==
    CHOOSE j \in AvailableAt(r) :
        /\ r.Channels[j].SensorName = r.Channels[i].SensorName
        /\ \A k \in AvailableAt(r) :
            r.Channels[k].SensorName = r.Channels[i].SensorName => k <= j

---------------------------------------------------------------------------
(* Schema inference and the CSV header.                                    *)

\* Where a key is first seen in a sequence of mappings: the mapping's index
\* times a stride, plus the key's position in that mapping.
FirstSeen(mappings, k) ==
    LET n == CHOOSE i \in 1..Len(mappings) :
                /\ k \in KeySet(mappings[i])
                /\ \A j \in 1..(i - 1) : k \notin KeySet(mappings[j])
        at == CHOOSE i \in 1..Len(mappings[n]) : mappings[n][i][1] = k
    IN  n * 1000 + at

\* list holds every key of the mappings once, in first-seen order.
InFirstSeenOrder(list, mappings) ==
    /\ {list[i] : i \in 1..Len(list)} = UNION {KeySet(mappings[i]) : i \in 1..Len(mappings)}
    /\ \A i, j \in 1..Len(list) :
        i < j => FirstSeen(mappings, list[i]) < FirstSeen(mappings, list[j])

\* C9: get_key_classifications returns a fields list and a tags list that each
\* hold every distinct key of the corresponding mapping of any Point exactly
\* once, ordered by first occurrence when the Points are visited in dataset
\* order.
C9_SchemaFirstSeen ==
    (pc = "classified" /\ ret.op = "keys") =>
        /\ InFirstSeenOrder(ret.value.fields, [i \in 1..Len(Points) |-> Points[i].fields])
        /\ InFirstSeenOrder(ret.value.tags, [i \in 1..Len(Points) |-> Points[i].tags])

\* A schema over two Points whose second brings a key the first has not, and
\* repeats one it has.
C9_Witness ==
    /\ pc = "classified"
    /\ ret.op = "keys"
    /\ Len(Points) = 2
    /\ KeySet(Points[2].fields) \ KeySet(Points[1].fields) # {}
    /\ KeySet(Points[2].fields) \cap KeySet(Points[1].fields) # {}
    /\ KeySet(Points[2].tags) \ KeySet(Points[1].tags) # {}

\* The text cut at a separator token: the list of the pieces between.
Split(text, sep) ==
    LET at == {i \in 1..Len(text) : text[i] = sep}
        n == Cardinality(at)
        bound(k) == IF k = 0 THEN 0
                    ELSE IF k = n + 1 THEN Len(text) + 1
                    ELSE CHOOSE i \in at : Cardinality({j \in at : j < i}) = k - 1
    IN  [k \in 1..(n + 1) |-> SubSeq(text, bound(k - 1) + 1, bound(k) - 1)]

\* The lines of a CSV text (each ends in "\n"), and the cells of a line.
Lines(csv) == LET parts == Split(csv, "\n") IN SubSeq(parts, 1, Len(parts) - 1)
Cells(line) == Split(line, ", ")

\* The available channels of the records that became Points, in order.
RECURSIVE AvailableChannels(_)
AvailableChannels(records) ==
    IF records = <<>> THEN <<>>
    ELSE SelectSeq(records[1].Channels, LAMBDA ch : NonNull(ch.PreScaled))
            \o AvailableChannels(Tail(records))

\* The distinct elements of a list, in first-seen order.
RECURSIVE Distinct(_)
Distinct(l) ==
    IF l = <<>> THEN <<>>
    ELSE LET front == Distinct(SubSeq(l, 1, Len(l) - 1))
         IN  IF \E i \in 1..Len(front) : front[i] = l[Len(l)] THEN front
             ELSE Append(front, l[Len(l)])

\* The schema's field keys in the order the raw answer brings them: a
\* record's location keys come before its channels' keys.
SeenChannels == AvailableChannels(Kept(raw.json))
SeenVariables == Distinct([i \in 1..Len(SeenChannels) |-> SeenChannels[i].SensorName])
SeenPairs ==
    Distinct([i \in 1..Len(SeenChannels) |->
                <<SeenChannels[i].SensorName, SeenChannels[i].UnitName>>])

\* The unit registered for a variable: that of its pair seen last for the
\* first time.
RegisteredUnit(variable) ==
    LET last == CHOOSE i \in 1..Len(SeenPairs) :
                    /\ SeenPairs[i][1] = variable
                    /\ \A j \in 1..Len(SeenPairs) : SeenPairs[j][1] = variable => j <= i
    IN  SeenPairs[last][2]

\* The schema's keys that hold neither "[" nor "Flag", fields first.
ExtraColumns(keys) ==
    SelectSeq(keys.fields \o keys.tags,
              LAMBDA k : \A i \in 1..Len(k) : k[i] \notin {"[", "Flag"})

\* The five columns of a variable; unit is the text behind the type.
FiveColumns(variable, unit) ==
    << variable \o <<" ", "PreScaled", " ">> \o unit,
       variable \o <<" ", "Scaled", " ">> \o unit,
       variable \o <<" ", "Flag">>,
       variable \o <<" ", "Slope", " ">> \o unit,
       variable \o <<" ", "Offset", " ">> \o unit >>

RECURSIVE ExpectedColumns(_, _)
ExpectedColumns(variables, bracketed) ==
    IF variables = <<>> THEN <<>>
    ELSE LET name == RegisteredUnit(variables[1])
             unit == IF bracketed THEN <<"[">> \o name \o <<"]">> ELSE name
         IN  FiveColumns(variables[1], unit) \o ExpectedColumns(Tail(variables), bracketed)

ExpectedHeader(keys, bracketed) ==
    <<Str("Timestamp")>> \o ExpectedColumns(SeenVariables, bracketed) \o ExtraColumns(keys)

\* A CSV text was returned for the decoded answer.
CsvReturned == pc = "formatted" /\ ret.op = "csv"

\* The worked example: the PM25 record under the metadata {SerialNumber: ABC123}.
IsExample == station_meta = ExampleMeta /\ raw.json = <<ExampleRecord(1)>>

\* C10 as stated: the header is Timestamp, then per variable in first-seen order
\* the five columns PreScaled, Scaled, Flag, Slope, Offset named "<Variable>
\* <Type> <Unit>" with the unit name without brackets (none on Flag), then the
\* extra-tag columns; for the example it reads "Timestamp, PM25 PreScaled
\* ug/m3, PM25 Scaled ug/m3, PM25 Flag, PM25 Slope ug/m3, PM25 Offset ug/m3,
\* SerialNumber".
C10_HeaderUnitBare ==
    CsvReturned =>
        /\ Cells(Lines(ret.value)[1]) = ExpectedHeader(ret.keys, FALSE)
        /\ IsExample =>
            Lines(ret.value)[1] =
                <<"Timestamp", ", ", "PM25", " ", "PreScaled", " ", "ug/m3", ", ",
                  "PM25", " ", "Scaled", " ", "ug/m3", ", ", "PM25", " ", "Flag", ", ",
                  "PM25", " ", "Slope", " ", "ug/m3", ", ",
                  "PM25", " ", "Offset", " ", "ug/m3", ", ", "SerialNumber">>

\* C10 (amended): the header is Timestamp, then per variable in first-seen order
\* the five columns PreScaled, Scaled, Flag, Slope, Offset named "<Variable>
\* <Type> [<Unit>]", the unit name kept in its square brackets as in the field
\* key (none on Flag), then the extra-tag columns; for the example it reads
\* "Timestamp, PM25 PreScaled [ug/m3], PM25 Scaled [ug/m3], PM25 Flag, PM25
\* Slope [ug/m3], PM25 Offset [ug/m3], SerialNumber".
C10_HeaderUnitBracketed ==
    CsvReturned =>
        /\ Cells(Lines(ret.value)[1]) = ExpectedHeader(ret.keys, TRUE)
        /\ IsExample =>
            Lines(ret.value)[1] =
                <<"Timestamp", ", ", "PM25", " ", "PreScaled", " ", "[", "ug/m3", "]", ", ",
                  "PM25", " ", "Scaled", " ", "[", "ug/m3", "]", ", ",
                  "PM25", " ", "Flag", ", ",
                  "PM25", " ", "Slope", " ", "[", "ug/m3", "]", ", ",
                  "PM25", " ", "Offset", " ", "[", "ug/m3", "]", ", ", "SerialNumber">>

\* The CSV text of a dataset of two variables, the second first seen in the
\* second Point, with location and metadata columns behind.
C10_Witness ==
    /\ CsvReturned
    /\ Len(Points) = 2
    /\ Len(SeenVariables) = 2
    /\ Len(ExtraColumns(ret.keys)) >= 3

---------------------------------------------------------------------------
(* The rows of the CSV text.                                               *)

\* The cells of a line, a separator between double quotes being part of the
\* cell.
QuotedCells(line) ==
    LET quotes(i) == Cardinality({j \in 1..(i - 1) : line[j] = "\""})
        at == {i \in 1..Len(line) : line[i] = ", " /\ quotes(i) % 2 = 0}
        n == Cardinality(at)
        bound(k) == IF k = 0 THEN 0
                    ELSE IF k = n + 1 THEN Len(line) + 1
                    ELSE CHOOSE i \in at : Cardinality({j \in at : j < i}) = k - 1
    IN  [k \in 1..(n + 1) |-> SubSeq(line, bound(k - 1) + 1, bound(k) - 1)]

\* The header's column names and the cells of the n-th data row.
HeaderCells == QuotedCells(Lines(ret.value)[1])
RowCells(n) == QuotedCells(Lines(ret.value)[n + 1])

\* The Point of the n-th data row: the rows come in reverse dataset order.
RowPoint(n) == Points[Len(Points) + 1 - n]

\* A value between double quotes.
Quoted(text) == <<"\"">> \o text \o <<"\"">>

\* C11: a cell is empty when the column's key is in neither the fields nor the
\* tags of the row's Point, the field's value unquoted when the key is in the
\* fields (also when it is in the tags too: the field wins), and the tag's
\* value in double quotes when the key is in the tags only.
C11_FieldWins ==
    CsvReturned =>
        \A n \in 1..Len(Points) :
            \A c \in 2..Len(HeaderCells) :
                LET key == HeaderCells[c]
                    p == RowPoint(n)
                IN  RowCells(n)[c] =
                        IF key \in KeySet(p.fields) THEN FloatStr(DictGet(p.fields, key))
                        ELSE IF key \in KeySet(p.tags) THEN Quoted(DictGet(p.tags, key))
                        ELSE <<>>

\* C12: the CSV text of a dataset of N Points has N+1 rows, the header and one
\* per Point, each ended by a newline, and every data row has as many cells
\* as the header has columns.
C12_RowsAndCells ==
    CsvReturned =>
        /\ ret.value[Len(ret.value)] = "\n"
        /\ Cardinality({i \in 1..Len(ret.value) : ret.value[i] = "\n"}) = Len(Points) + 1
        /\ Len(Lines(ret.value)) = Len(Points) + 1
        /\ \A n \in 1..Len(Points) : Len(RowCells(n)) = Len(HeaderCells)

\* Two rows, one with an empty cell, one with a quoted cell that holds a
\* comma and a space.
C12_Witness ==
    /\ CsvReturned
    /\ Len(Points) = 2
    /\ \E n \in 1..2 : \E c \in 2..Len(HeaderCells) : RowCells(n)[c] = <<>>
    /\ \E n \in 1..2 : \E c \in 2..Len(HeaderCells) :
        \E i \in 1..Len(RowCells(n)[c]) : RowCells(n)[c][i] = ", "

\* The cell a Point has under a column: nothing without the key, the quoted
\* tag for a key of the tags alone, the field for a key of the fields alone,
\* and for a key of both the tag's value without quotes.
CellOf(p, key) ==
    IF key \in KeySet(p.fields) /\ key \in KeySet(p.tags) THEN DictGet(p.tags, key)
    ELSE IF key \in KeySet(p.fields) THEN FloatStr(DictGet(p.fields, key))
    ELSE IF key \in KeySet(p.tags) THEN Quoted(DictGet(p.tags, key))
    ELSE <<>>

\* The n-th data row is the row of the Point p: its time, then its cells.
RowShows(n, p) ==
    /\ Len(RowCells(n)) = Len(HeaderCells)
    /\ RowCells(n)[1] = <<p.time.date, " ", p.time.time>>
    /\ \A c \in 2..Len(HeaderCells) : RowCells(n)[c] = CellOf(p, HeaderCells[c])

\* "<date>T<time><offset>", the offset as +hhmm.
JsonStamp(p) ==
    <<p.time.date, "T", p.time.time,
      CASE p.time.utcoffset = 0 -> "+0000" [] p.time.utcoffset = 60 -> "+0100">>

\* A mapping was returned by format_as_json for the decoded answer.
JsonReturned == pc = "formatted" /\ ret.op = "json"

\* The Points in the order the formatters go through them.
Processed == [k \in 1..Len(Points) |-> Points[Len(Points) + 1 - k]]

C13_State ==
    /\ CsvReturned => \A n \in 1..Len(Points) : RowShows(n, Processed[n])
    /\ JsonReturned =>
        DictKeys(ret.value) = Distinct([k \in 1..Len(Points) |-> JsonStamp(Processed[k])])

C13_Step == pc' = "formatted" => measurement_data' = measurement_data

\* C13: format_as_csv and format_as_json emit the Points in the reverse of the
\* stored order, and leave the stored dataset as it is.
C13_ReverseOrder == []C13_State /\ [][C13_Step]_vars

\* A CSV text of two Points that differ, the second stored in the first row.
C13_Witness ==
    /\ CsvReturned
    /\ Len(Points) = 2
    /\ RowCells(1) # RowCells(2)
    /\ RowShows(1, Points[2])
    /\ ~RowShows(1, Points[1])

\* The stored positions of the Points with a timestamp string.
Stamped(key) == {i \in 1..Len(Points) : JsonStamp(Points[i]) = key}

\* Of these, the one the formatter processes last: the first stored.
LastProcessed(key) == CHOOSE i \in Stamped(key) : \A j \in Stamped(key) : i <= j

\* C14: format_as_json returns one entry per distinct timestamp string of the
\* dataset; each entry's Data is the fields and its Status the tags of the
\* Point with that timestamp that is processed last in the reversed order.
C14_JsonEntries ==
    JsonReturned =>
        /\ KeySet(ret.value) = {JsonStamp(Points[i]) : i \in 1..Len(Points)}
        /\ Len(ret.value) = Cardinality(KeySet(ret.value))
        /\ (\A i, j \in 1..Len(Points) : i # j => JsonStamp(Points[i]) # JsonStamp(Points[j]))
               => Len(ret.value) = Len(Points)
        /\ \A e \in 1..Len(ret.value) :
               LET p == Points[LastProcessed(ret.value[e][1])]
               IN  ret.value[e][2] = [Data |-> p.fields, Status |-> p.tags]

\* Two Points that differ share a timestamp string, and the mapping has one
\* entry: that of the first stored.
C14_Witness ==
    /\ JsonReturned
    /\ Len(Points) = 2
    /\ JsonStamp(Points[1]) = JsonStamp(Points[2])
    /\ Points[1].fields # Points[2].fields
    /\ Len(ret.value) = 1
    /\ ret.value[1][2].Data = Points[1].fields

\* Two Points of different timestamps, two entries.
C14_Distinct == JsonReturned /\ Len(Points) = 2 /\ Len(ret.value) = 2

\* The header columns named as a key.
ColumnsOf(key) == {c \in 2..Len(HeaderCells) : HeaderCells[c] = key}

\* C18: format_as_csv loses no field: every field key of every Point has
\* exactly one header column, and the Point's row holds the field's value under
\* it, also when two channels share a SensorName under different UnitNames.
C18_NoFieldLost ==
    CsvReturned =>
        \A n \in 1..Len(Points) : \A key \in KeySet(Processed[n].fields) :
            /\ Cardinality(ColumnsOf(key)) = 1
            /\ \A c \in ColumnsOf(key) :
                    RowCells(n)[c] = FloatStr(DictGet(Processed[n].fields, key))

\* The field keys of the dataset.
FieldKeys == UNION {KeySet(Points[n].fields) : n \in 1..Len(Points)}

\* A field key of a sensor that the dataset also holds under another unit.
\* A channel's field key is its name, a type and the unit in brackets.
UnderTwoUnits(key) ==
    \E other \in FieldKeys :
        Len(key) = 7 /\ Len(other) = 7 /\ other[1] = key[1] /\ other[6] # key[6]

\* The fields of sensors held under one unit each, in Points whose tags share
\* no key with their fields, are all in the row.
C18_OneUnitEach ==
    CsvReturned =>
        \A n \in 1..Len(Points) : \A key \in KeySet(Processed[n].fields) :
            (~UnderTwoUnits(key) /\ key \notin KeySet(Processed[n].tags))
            => /\ Cardinality(ColumnsOf(key)) = 1
               /\ \A c \in ColumnsOf(key) :
                      RowCells(n)[c] = FloatStr(DictGet(Processed[n].fields, key))

---------------------------------------------------------------------------
(* The object under any sequence of calls.                                 *)

\* The answers of the last call that were decoded to their end: JSON lists,
\* but for the one at which the call raised.
DecodedAnswers ==
    {k \in 1..Len(raw) : raw[k][2].is_json /\ ~(ret.raised /\ k = Len(raw))}

\* C1: after any sequence of dl_station_measurements,
\* dl_all_station_measurements and clear_measurements calls, every Point in any
\* station's list has a non-empty fields mapping, and a station's list is as
\* long as the number of records of its answer that have a field: a record
\* without fields is not appended.
C1_PointsHaveFields ==
    /\ \A i \in 1..Len(measurement_data) :
        \A n \in 1..Len(measurement_data[i][2]) :
            measurement_data[i][2][n].fields # <<>>
    /\ ret.op \in {"dl", "dl_all"} =>
        \A k \in DecodedAnswers :
            Len(DictGet(measurement_data, raw[k][1])) = Len(Kept(raw[k][2].json))

\* A download whose answer held a record with fields and one without: the
\* station's list holds one Point.
C1_Witness ==
    /\ pc = "api"
    /\ ret.op = "dl_all"
    /\ \E k \in DecodedAnswers :
        /\ Len(raw[k][2].json) = 2
        /\ Len(DictGet(measurement_data, raw[k][1])) = 1

---------------------------------------------------------------------------
(* Properties of the day loop of main.py.                                  *)

\* The day the loop is on.
Today == DayStart(start_date, day)

HasCsv(st, d) == DictHas(files, <<FilePath("csv", st), FileName(d, "csv")>>)
HasJson(st, d) == DictHas(files, <<FilePath("json", st), FileName(d, "json")>>)
HasWrite(st, d) == \E i \in 1..Len(influx) : influx[i].station = st /\ influx[i].on = d
HasOutput(st, d) == HasCsv(st, d) \/ HasJson(st, d) \/ HasWrite(st, d)

\* A non-200 status, or a payload equal to the marker.
SoftFailure(resp) == resp.status_code # 200 \/ resp.content = NoDataMarker

\* The stations after the first n of the known ones.
StationsAfter(n) == SubSeq(StationIds, n + 1, Len(StationIds))

\* C4: a request answered with a non-200 status or with the marker raises
\* nothing, records no Point for the station on that day, leaves the loop at
\* the next station, and the station is in none of the day's csv, json or
\* database outputs.
C4_SoftFailureSkipped ==
    \A k \in 1..Len(raw) :
        SoftFailure(raw[k][2]) =>
            /\ ~(pc = "raised" /\ k = Len(raw))
            /\ ~DictHas(measurement_data, raw[k][1])
            /\ (pc = "download" /\ k = Len(raw)) => todo = StationsAfter(k)
            /\ ~HasOutput(raw[k][1], Today)

C4_Witness ==
    /\ pc = "clear"
    /\ Len(raw) = 2
    /\ {raw[1][2], raw[2][2]} \cap {NotFound, NoData} # {}
    /\ \E k \in 1..2 :
        HasCsv(raw[k][1], Today) /\ HasJson(raw[k][1], Today) /\ HasWrite(raw[k][1], Today)

\* C5: on every day an output (csv file, json file, database write) exists for
\* a station only if the station's dataset of the day is non-empty.
C5_OutputsOnlyForNonEmpty ==
    pc \in {"json", "influx", "clear"} =>
        \A i \in 1..Len(StationIds) :
            HasOutput(StationIds[i], Today) =>
                /\ DictHas(measurement_data, StationIds[i])
                /\ DictGet(measurement_data, StationIds[i]) # <<>>

\* The requests for measurements, in the order they were issued.
MeasurementRequests == IF requests = <<>> THEN <<>> ELSE Tail(requests)

\* The answer the points of a station were decoded from.
AnswerOf(st) == raw[CHOOSE k \in 1..Len(raw) : raw[k][1] = st][2]

C6_State ==
    /\ (pc = "download" /\ raw = <<>>) => measurement_data = <<>>
    /\ pc \in {"download", "csv", "json", "influx", "clear"} =>
        /\ \A k \in 1..Len(raw) :
            requests[Len(requests) - Len(raw) + k] = DataReqLink(raw[k][1], Today, Today + 1)
        /\ \A i \in 1..Len(measurement_data) :
            /\ \E k \in 1..Len(raw) : raw[k][1] = measurement_data[i][1]
            /\ Len(measurement_data[i][2]) = Len(Kept(AnswerOf(measurement_data[i][1]).json))
            /\ \A n \in 1..Len(measurement_data[i][2]) :
                measurement_data[i][2][n].time.date = DateStr(Today)

C6_Step ==
    /\ day' # day =>
        /\ pc = "clear"
        /\ measurement_data' = <<>>
        /\ station_meta' = station_meta /\ station_meta # <<>>
    /\ (pc' = "download" /\ pc # "download") => measurement_data' = <<>>
    /\ (measurement_data # <<>> /\ measurement_data' = <<>>) => pc = "clear"
    /\ (files' # files \/ influx' # influx) =>
        /\ pc \in {"csv", "json", "influx"}
        /\ day' = day /\ measurement_data' = measurement_data
    /\ Len(requests') > Len(requests) =>
        pc \in {"meta", "download"} /\ UNCHANGED <<files, influx, day>>

\* C6: the datasets are empty when the first request of a day is issued; they
\* are cleared after the day's outputs and before the next day's requests; the
\* Points present at the outputs of a day come from answers to that day's
\* requests; only the station metadata crosses a day boundary.
C6_DayIsolation == []C6_State /\ [][C6_Step]_vars

C6_Witness ==
    /\ day = 1 /\ pc = "csv"
    /\ HasCsv(S1, DayStart(start_date, 0))
    /\ DictHas(measurement_data, S1)
    /\ DictGet(measurement_data, S1) # <<>>

\* The end date of the command line.
end_date == start_date + number_of_days

\* The days of [start, end), ascending.
DaysToDo == IF number_of_days > 0 THEN number_of_days ELSE 0

\* One request per day of [start, end) and station, days ascending.
ExpectedRequests ==
    [k \in 1..(DaysToDo * Len(StationIds)) |->
        LET d == start_date + ((k - 1) \div Len(StationIds))
        IN  DataReqLink(StationIds[((k - 1) % Len(StationIds)) + 1], d, d + 1)]

C7_State ==
    pc # "meta" =>
        /\ Len(MeasurementRequests) <= Len(ExpectedRequests)
        /\ MeasurementRequests = SubSeq(ExpectedRequests, 1, Len(MeasurementRequests))
        /\ \A k \in 1..Len(MeasurementRequests) :
            /\ start_date <= MeasurementRequests[k].from
            /\ MeasurementRequests[k].from < end_date
        /\ pc = "done" => MeasurementRequests = ExpectedRequests
        /\ end_date <= start_date => pc = "done" /\ MeasurementRequests = <<>>

\* C7: every day of [start, end) is requested once per station, days
\* ascending; no window starts at or after end; no day is processed when end
\* is not after start; the loop ends.
C7_DayLoop == []C7_State /\ <>(pc \in {"done", "raised"})

C7_Witness ==
    /\ pc = "done"
    /\ number_of_days = 2
    /\ Len(MeasurementRequests) = 4

C8_State ==
    /\ pc = "meta" => requests = <<>> /\ station_meta = <<>>
    /\ pc # "meta" => requests # <<>> /\ requests[1] = [stations |-> TRUE]
    /\ \A k \in 2..Len(requests) : "id" \in DOMAIN requests[k]
    /\ \A i \in 1..Len(station_meta) :
        \A key \in {"Latitude", "Longitude", "Altitude"} :
            ~DictHas(station_meta[i][2], Str(key))

C8_Step ==
    pc # "meta" =>
        /\ station_meta' = station_meta
        /\ (pc' = "download" /\ pc = "clear") => todo' = StationIds

\* C8: the station-metadata endpoint is called once, before the first request
\* for measurements; afterwards no step changes station_meta or the list of
\* known stations; Latitude, Longitude and Altitude are never keys of
\* station_meta.
C8_MetaOnceAndFrozen == []C8_State /\ [][C8_Step]_vars

C8_Witness ==
    /\ pc = "done"
    /\ Len(requests) > 2
    /\ DictHas(station_meta, S1)
    /\ DictHas(DictGet(station_meta, S1), Str("SerialNumber"))

\* A payload with a timestamp the format does not match, or with a value that
\* is not a number where one is read: a location value that is not null, or
\* one of the four values of a channel whose PreScaled is not null.
IsNumber(x) == x.kind \in {"int", "float"}

Unparsable(record) ==
    \/ record.TBTimestamp \notin
            {Timestamp(d, t, tz) : d \in 1..Len(DateTokens), t \in TimeTokens,
                                   tz \in {"+0000", "+00:00", "Z", "+0100"}}
    \/ \E x \in {record.Latitude, record.Longitude, record.Altitude} :
            x.kind # "null" /\ ~IsNumber(x)
    \/ \E i \in 1..Len(record.Channels) :
            LET channel == record.Channels[i]
            IN  /\ channel.PreScaled.kind # "null"
                /\ \E x \in {channel.PreScaled, channel.Scaled, channel.Slope,
                              channel.Offset} : ~IsNumber(x)

ParseFailure(resp) ==
    /\ ~SoftFailure(resp)
    /\ resp.is_json
    /\ \E i \in 1..Len(resp.json) : Unparsable(resp.json[i])

\* The days from d on.
DaysFrom(d) == d..(2 + MaxDays + 1)

C15_State ==
    /\ \A k \in 1..Len(raw) :
            ParseFailure(raw[k][2]) => pc = "raised" /\ k = Len(raw)
    /\ pc = "raised" =>
            /\ raw # <<>> /\ ParseFailure(raw[Len(raw)][2])
            /\ \A i \in 1..Len(station_meta) : \A d \in DaysFrom(Today) :
                    ~HasOutput(station_meta[i][1], d)

C15_Step ==
    /\ pc # "raised"
    /\ pc' = "raised" => files' = files /\ influx' = influx

\* C15: a timestamp or number of a payload that fails to parse on day d ends
\* the run: no station request follows, no csv, json or database output is
\* produced for day d or a later day, and the outputs of the days before d
\* stay as written.
C15_ParseFailureEndsRun == []C15_State /\ [][C15_Step]_vars

\* A number fails to parse at the first station of the second day, with the
\* outputs of the first day written.
C15_Witness ==
    /\ pc = "raised"
    /\ day = 1
    /\ Len(raw) = 1
    /\ todo # <<>>
    /\ raw[1][2] = JsonResponse(<<BadNumberRecord(Today)>>)
    /\ \E st \in {S1, S2} :
            HasCsv(st, Today - 1) /\ HasJson(st, Today - 1) /\ HasWrite(st, Today - 1)

\* The requests dl_station_measurements(id, day_start, period) makes for the
\* first n stations, in the order of station_meta.
PerStationRequests(day_start, period, n) ==
    [i \in 1..n |-> DlStationRequest(StationIds[i], day_start, period)]

\* C16: dl_all_station_measurements(day_start, periodLength) requests for every
\* station the window from day_start to day_start plus periodLength days, as
\* dl_station_measurements(id, day_start, periodLength) does for each station.
C16_AllUsesPeriod ==
    (pc = "api" /\ ret.op = "dl_all" /\ ret.requests # <<>>) =>
        ret.requests = PerStationRequests(ret.requests[1].from, ret.period,
                                          Len(ret.requests))

\* With a period of one day the requests are those of the per-station calls.
C16_OneDay ==
    (pc = "api" /\ ret.op = "dl_all" /\ ret.requests # <<>> /\ ret.period = 1) =>
        ret.requests = PerStationRequests(ret.requests[1].from, 1, Len(ret.requests))

\* The writes to the database of a station's list on a day.
WritesOf(st, d) == {i \in 1..Len(influx) : influx[i].station = st /\ influx[i].on = d}

\* The files of a kind, whatever the station and the day.
FilesOfKind(kind) == {i \in 1..Len(files) : files[i][1][1][3] = kind}

WithData == KeySet(measurement_data)

C17_State ==
    /\ ~cfg.influx => influx = <<>>
    /\ cfg.format \notin {"csv", "both"} => FilesOfKind("csv") = {}
    /\ cfg.format \notin {"json", "both"} => FilesOfKind("json") = {}
    /\ pc \in {"download", "csv", "json", "influx", "raised"} =>
            \A i \in 1..Len(station_meta) : WritesOf(station_meta[i][1], Today) = {}
    /\ (pc = "clear" /\ cfg.influx) =>
            /\ todo = <<>>
            /\ \A i \in 1..Len(station_meta) :
                    LET st == station_meta[i][1]
                    IN  IF st \in WithData
                        THEN /\ Cardinality(WritesOf(st, Today)) = 1
                             /\ \A w \in WritesOf(st, Today) :
                                    influx[w].points = DictGet(measurement_data, st)
                        ELSE WritesOf(st, Today) = {}
    /\ (pc \in {"json", "influx", "clear"} /\ cfg.format \in {"csv", "both"}) =>
            \A st \in WithData : HasCsv(st, Today)
    /\ (pc \in {"influx", "clear"} /\ cfg.format \in {"json", "both"}) =>
            \A st \in WithData : HasJson(st, Today)

\* The sink is handed lists at the database step alone, which follows the
\* day's last request and precedes the day's clear; what it was handed stays.
C17_Step ==
    /\ influx' # influx =>
            /\ pc = "influx" /\ pc' = "clear" /\ todo = <<>>
            /\ measurement_data' = measurement_data
            /\ Len(influx') > Len(influx)
            /\ SubSeq(influx', 1, Len(influx)) = influx
    /\ pc = "clear" => influx' = influx

\* C17: with database writing on, every Point decoded on a day for every
\* station with data is handed to the sink exactly once, after the day's
\* requests and before the day's clear; with it off the sink is handed
\* nothing.  Csv files are written exactly under the formats csv and both,
\* json files exactly under json and both.
C17_OutputsAsConfigured == []C17_State /\ [][C17_Step]_vars

\* The second day's lists of two stations with Points have been handed to the
\* sink, after the first day's, and both kinds of file are written.
C17_Witness ==
    /\ pc = "clear"
    /\ cfg = [format |-> "both", influx |-> TRUE]
    /\ day = 1
    /\ Len(influx) >= 3
    /\ \A st \in {S1, S2} :
            /\ st \in WithData
            /\ DictGet(measurement_data, st) # <<>>
            /\ HasCsv(st, Today) /\ HasJson(st, Today)
            /\ Cardinality(WritesOf(st, Today)) = 1

\* dl_station_measurements has returned.
DlReturned == pc = "api" /\ ret.op = "dl" /\ ~ret.raised

\* C19: after dl_station_measurements(id, day) returns, measurement_data[id] is
\* absent or holds only the Points decoded from that call's answer, whatever
\* calls came before: after a soft failure the station shows no Point.
C19_OnlyThisCallsPoints ==
    DlReturned =>
        LET id == raw[1][1]
            resp == raw[1][2]
            visible == IF DictHas(measurement_data, id)
                       THEN DictGet(measurement_data, id) ELSE <<>>
        IN  /\ SoftFailure(resp) => visible = <<>>
            /\ visible # <<>> =>
                    /\ resp.is_json
                    /\ Len(visible) = Len(Kept(resp.json))
                    /\ \A n \in 1..Len(Kept(resp.json)) :
                            visible[n].time = Strptime(Kept(resp.json)[n].TBTimestamp)

\* A call for a station that has no list when it is made leaves none behind
\* but that of its own answer.
C19_FromAbsent ==
    [][(raw' # <<>> /\ ~DictHas(measurement_data, raw'[1][1]))
            => C19_OnlyThisCallsPoints']_vars

\* The answer of the last dl_station_measurements was decoded: the call raised
\* on it, or the station's list is the one made from its records.
WasDecoded ==
    LET id == raw[1][1]
        resp == raw[1][2]
    IN  \/ ret.raised
        \/ /\ resp.is_json
           /\ DictHas(measurement_data, id)
           /\ Len(DictGet(measurement_data, id)) = Len(Kept(resp.json))

\* C20: an answer is taken as "no data" only when its status is not 200 or its
\* payload is the marker itself: every answer of status 200 with another
\* payload, an empty one or a part of the marker included, is decoded.
C20_OnlyMarkerIsNoData ==
    (pc = "api" /\ ret.op = "dl" /\ ~SoftFailure(raw[1][2])) => WasDecoded

\* Every answer of status 200 whose payload is no part of the marker is decoded.
C20_NoPartOfMarker ==
    (pc = "api" /\ ret.op = "dl" /\ raw[1][2].status_code = 200
        /\ ~BytesIn(raw[1][2].content, NoDataMarker)) => WasDecoded

====
